---- MODULE Spec2Model ----
(***************************************************************************)
(* HFC Data Correction (src/app.py): the correction session of one browser *)
(* session of the Streamlit script.  Every user interaction re-runs the    *)
(* script from top to bottom; one action below is one such script run.     *)
(* st.session_state (corrected_errors, all_corrections_data), the widget   *)
(* values and the remote corrections.csv persist between runs.             *)
(***************************************************************************)
EXTENDS Integers, Sequences, FiniteSets, TLC

\* Bounds of the model.
MaxLen == 2          \* longest explanation text a user types

\* app.py:283  min_val, max_val = 0, 100000
DefaultMin == 0
DefaultMax == 100000

(***************************************************************************)
(* Text.  An explanation is a sequence of characters; " " is whitespace.   *)
(***************************************************************************)
Chars == {" ", "x"}
\* The texts a user types: at most one visible character, whitespace around it.
Explanations ==
    {s \in UNION {[1..n -> Chars] : n \in 0..MaxLen} :
        Cardinality({i \in 1..Len(s) : s[i] = "x"}) <= 1}

RECURSIVE lstrip(_)
lstrip(s) == IF s # <<>> /\ Head(s) = " " THEN lstrip(Tail(s)) ELSE s

RECURSIVE rstrip(_)
rstrip(s) == IF s # <<>> /\ s[Len(s)] = " " THEN rstrip(SubSeq(s, 1, Len(s) - 1)) ELSE s

\* str.strip()
strip(s) == rstrip(lstrip(s))

\* app.py:389  correction_data['explanation'] and correction_data['explanation'].strip()
HasExplanation(correction_data) ==
    correction_data.explanation # <<>> /\ strip(correction_data.explanation) # <<>>

(***************************************************************************)
(* A rule text is a sequence of tokens: a word, or a run of digits.        *)
(***************************************************************************)
Word(w) == [kind |-> "word", word |-> w, num |-> 0]
Num(n) == [kind |-> "num", word |-> "", num |-> n]

\* re.findall(r'\d+', constraint_text)
findall_digits(text) ==
    LET RECURSIVE F(_)
        F(t) == IF t = <<>> THEN <<>>
                ELSE IF Head(t).kind = "num" THEN <<Head(t).num>> \o F(Tail(t))
                ELSE F(Tail(t))
    IN F(text)

\* str.lower() of one word
lower(w) == IF w = "MAX" THEN "max" ELSE IF w = "MIN" THEN "min" ELSE w

\* 'max' in constraint_text.lower()
Contains(text, w) ==
    \E i \in 1..Len(text) : text[i].kind = "word" /\ lower(text[i].word) = w

\* Mutant of infer_bounds: the first literal is taken, not the last.
infer_bounds_first_literal(constraint_text) ==
    LET numbers == findall_digits(constraint_text)
        max_val == IF Contains(constraint_text, "max") /\ numbers # <<>>
                   THEN numbers[1] ELSE DefaultMax
        min_val == IF Contains(constraint_text, "min") /\ numbers # <<>>
                   THEN numbers[1] ELSE DefaultMin
    IN [min_val |-> min_val, max_val |-> max_val]

\* Mutant of infer_bounds: a keyword without a literal sets its bound to 0.
infer_bounds_keyword_zero(constraint_text) ==
    LET numbers == findall_digits(constraint_text)
        max_val == IF Contains(constraint_text, "max")
                   THEN (IF numbers # <<>> THEN numbers[Len(numbers)] ELSE 0)
                   ELSE DefaultMax
        min_val == IF Contains(constraint_text, "min") /\ numbers # <<>>
                   THEN numbers[Len(numbers)] ELSE DefaultMin
    IN [min_val |-> min_val, max_val |-> max_val]

\* app.py:283-295: the bounds read off the rule text
infer_bounds(constraint_text) ==
    LET numbers == findall_digits(constraint_text)
        max_val == IF Contains(constraint_text, "max") /\ numbers # <<>>
                   THEN numbers[Len(numbers)] ELSE DefaultMax
        min_val == IF Contains(constraint_text, "min") /\ numbers # <<>>
                   THEN numbers[Len(numbers)] ELSE DefaultMin
    IN [min_val |-> min_val, max_val |-> max_val]

\* app.py:298-305: the value the number input starts with.  value is
\* [int |-> TRUE, n |-> ...] when int(error['value']) succeeds.
current_value(value, min_val, max_val) ==
    IF ~value.int THEN min_val
    ELSE LET c1 == IF value.n < min_val THEN min_val ELSE value.n
         IN IF max_val # 0 /\ c1 > max_val THEN max_val ELSE c1

(***************************************************************************)
(* The two source tables (read-only snapshots, app.py:140).                *)
(***************************************************************************)
IntVal(n) == [int |-> TRUE, n |-> n]

constraints_df ==
    << [username |-> "ayele", unique_id |-> 1, variable |-> "area", farmer_name |-> "f1",
        value |-> IntVal(600), constraint |-> <<Word("max"), Num(500)>>],
       [username |-> "bekele", unique_id |-> 2, variable |-> "area", farmer_name |-> "f2",
        value |-> IntVal(7), constraint |-> <<Word("min"), Num(1)>>] >>

logic_df ==
    << [username |-> "ayele", unique_id |-> 1, variable |-> "trees", farmer_name |-> "f1",
        value |-> IntVal(40), Troster |-> 25] >>

\* app.py:19-20, 86: the corrections.csv an earlier session left in the repository
PriorRows ==
    << [error_type |-> "constraint", username |-> "chaltu", farmer_name |-> "f9",
        unique_id |-> 9, variable |-> "area", original_value |-> IntVal(3),
        reference_value |-> <<Word("min"), Num(5)>>, correct_value |-> 5,
        explanation |-> <<"x">>, corrected_by |-> "chaltu"] >>

(***************************************************************************)
(* Helpers on sets and sequences.                                          *)
(***************************************************************************)
Min(S) == CHOOSE x \in S : \A y \in S : x <= y

\* sorted(...) of a set of integers (app.py:227)
RECURSIVE sorted(_)
sorted(S) == IF S = {} THEN <<>> ELSE <<Min(S)>> \o sorted(S \ {Min(S)})

(***************************************************************************)
(* Error keys and the outstanding errors of an enumerator.                 *)
(***************************************************************************)
\* app.py:271  f"constraint_{error['unique_id']}_{error['variable']}"
\* app.py:337  f"logic_{discrepancy['unique_id']}_{discrepancy['variable']}"
ErrorKey(error_type, row) == <<error_type, row.unique_id, row.variable>>

\* app.py:201-203: the usernames of both tables, sorted
all_enumerators == <<"ayele", "bekele">>

\* app.py:213, 217-219
enumerator_constraints(selected_enumerator, corrected) ==
    LET Keep(x) == x.username = selected_enumerator
                   /\ ErrorKey("constraint", x) \notin corrected
    IN SelectSeq(constraints_df, Keep)

\* app.py:214, 220-222
enumerator_logic(selected_enumerator, corrected) ==
    LET Keep(x) == x.username = selected_enumerator
                   /\ ErrorKey("logic", x) \notin corrected
    IN SelectSeq(logic_df, Keep)

\* app.py:225-227
all_farmers_with_errors(ec, el) ==
    sorted({ec[i].unique_id : i \in 1..Len(ec)} \cup {el[i].unique_id : i \in 1..Len(el)})

\* The error keys the enumerator view shows in this run.
OutstandingKeys(selected_enumerator, corrected) ==
    LET ec == enumerator_constraints(selected_enumerator, corrected)
        el == enumerator_logic(selected_enumerator, corrected)
    IN {ErrorKey("constraint", ec[i]) : i \in 1..Len(ec)}
       \cup {ErrorKey("logic", el[i]) : i \in 1..Len(el)}

(***************************************************************************)
(* Session state.                                                          *)
(***************************************************************************)
VARIABLES
    corrected_errors,      \* st.session_state.corrected_errors (app.py:131)
    all_corrections_data,  \* st.session_state.all_corrections_data (app.py:133): a dict,
                           \* kept as the sequence of its items in insertion order
    widgets,               \* the values of the number inputs and text areas drawn in the
                           \* last run, by error key (app.py:308-322, 352-366)
    selected_enumerator,   \* the select box (app.py:205)
    is_admin,              \* the admin toggle (app.py:148)
    ledger,                \* corrections.csv in the repository (app.py:86)
    outcome,               \* history: what the last script run did
    corrections,           \* history: the list built by the last save run (app.py:415)
    confirmed,             \* history: every row a put of this session was confirmed for,
                           \* after the rows the ledger held at session start
    github_token,          \* st.secrets["github"]["token"] is set (app.py:27, 71, 115)
    data_cache,            \* the st.cache_data entry of load_data_from_github (app.py:22)
    reached,               \* how far the last script run got (app.py:138, 145, 148)
    tables,                \* whether constraints_df / logic_df of the last run is a
                           \* table, not None (app.py:140)
    responses,             \* history: what the requests of the last run were answered
    all_corrections,       \* the ledger as the admin view read it (app.py:162)
    constraint_input,      \* one constraint error on its way to its number input: the
                           \* row's rule text and value, and the locals min_val,
                           \* max_val and current_value (app.py:282-305)
    writers                \* sessions inside save_corrections_to_github at the same
                           \* time: where each is, the sha its get returned, its rows
                           \* and its result (app.py:85-105)

\* The state of the correction session.
session_vars == <<corrected_errors, all_corrections_data, widgets, selected_enumerator,
                  is_admin, ledger, outcome, corrections, confirmed>>

\* The state of the start of a script run.
start_vars == <<github_token, data_cache, reached, tables, responses>>

vars == <<corrected_errors, all_corrections_data, widgets, selected_enumerator,
          is_admin, ledger, outcome, corrections, confirmed,
          github_token, data_cache, reached, tables, responses, all_corrections,
          constraint_input, writers>>

(***************************************************************************)
(* The dict all_corrections_data.                                          *)
(***************************************************************************)
DictKeys(d) == {d[i].key : i \in 1..Len(d)}

DictGet(d, k) == d[CHOOSE i \in 1..Len(d) : d[i].key = k]

\* Mutant of DictSet: an existing key keeps its first item (dict.setdefault).
DictSetKeepsFirst(d, k, item) ==
    IF k \in DictKeys(d) THEN d ELSE Append(d, item)

\* d[k] = item: replaces the item in place, or appends a new key
DictSet(d, k, item) ==
    IF k \in DictKeys(d)
    THEN [i \in 1..Len(d) |-> IF d[i].key = k THEN item ELSE d[i]]
    ELSE Append(d, item)

(***************************************************************************)
(* Drawing the enumerator view (app.py:244-376).                           *)
(***************************************************************************)
\* app.py:244-250, 270, 336: the errors in the order the run draws them:
\* farmers ascending; for each farmer the constraint errors, then the logic errors.
RenderOrder(sel, corrected) ==
    LET ec == enumerator_constraints(sel, corrected)
        el == enumerator_logic(sel, corrected)
        farmers == all_farmers_with_errors(ec, el)
        OfFarmer(rows, error_type, farmer_id) ==
            LET Mine(x) == x.unique_id = farmer_id
                mine == SelectSeq(rows, Mine)
            IN [i \in 1..Len(mine) |-> [error_type |-> error_type, error_data |-> mine[i]]]
        RECURSIVE R(_)
        R(i) == IF i > Len(farmers) THEN <<>>
                ELSE OfFarmer(ec, "constraint", farmers[i])
                     \o OfFarmer(el, "logic", farmers[i]) \o R(i + 1)
    IN R(1)

\* app.py:283-305 (constraint), 348-350 (logic): min_value, max_value and value
\* of the number input of one error
NumberInput(error_type, error_data) ==
    IF error_type = "constraint"
    THEN LET b == infer_bounds(error_data.constraint)
         IN [min_value |-> b.min_val, max_value |-> b.max_val,
             value |-> current_value(error_data.value, b.min_val, b.max_val)]
    ELSE LET farmer_value == error_data.value.n
             m == IF farmer_value > error_data.Troster THEN farmer_value
                  ELSE error_data.Troster
         IN [min_value |-> 0, max_value |-> m * 2, value |-> farmer_value]

\* A widget drawn for the first time starts from its defaults: value=current_value,
\* an empty text area.  Streamlit drops the state of a widget that a run does not
\* draw, so a widget drawn again after such a run starts from its defaults too.
NewWidget(error_type, error_data) ==
    [correct_value |-> NumberInput(error_type, error_data).value, explanation |-> <<>>]

\* Mutant of StoreCorrection: an error is stored only once its explanation is typed.
StoreCorrectionIfExplained(data, w, e) ==
    LET error_key == ErrorKey(e.error_type, e.error_data)
    IN IF w[error_key].explanation = <<>> THEN data
       ELSE DictSet(data, error_key,
                    [key |-> error_key, error_type |-> e.error_type,
                     error_data |-> e.error_data,
                     correct_value |-> w[error_key].correct_value,
                     explanation |-> w[error_key].explanation])

\* app.py:308-330, 352-374: one error's widgets are read and stored
StoreCorrection(data, w, e) ==
    LET error_key == ErrorKey(e.error_type, e.error_data)
    IN DictSet(data, error_key,
               [key |-> error_key, error_type |-> e.error_type, error_data |-> e.error_data,
                correct_value |-> w[error_key].correct_value,
                explanation |-> w[error_key].explanation])

\* The widgets of this run: a widget drawn in the last run keeps its value.
DrawWidgets(order, old) ==
    [k \in {ErrorKey(order[i].error_type, order[i].error_data) : i \in 1..Len(order)} |->
        IF k \in DOMAIN old THEN old[k]
        ELSE LET e == order[CHOOSE i \in 1..Len(order) :
                              ErrorKey(order[i].error_type, order[i].error_data) = k]
             IN NewWidget(e.error_type, e.error_data)]

\* app.py:244-376: all_corrections_data after the loop over farmers and errors
RECURSIVE StoreAll(_, _, _)
StoreAll(data, w, order) ==
    IF order = <<>> THEN data
    ELSE StoreAll(StoreCorrection(data, w, Head(order)), w, Tail(order))

(***************************************************************************)
(* Validation and the correction rows (app.py:383-463).                    *)
(***************************************************************************)
\* app.py:393-399
MissingLabel(error_key, correction_data) ==
    <<IF error_key[1] = "constraint" THEN "Constraint" ELSE "Logic",
      correction_data.error_data.variable>>

\* app.py:383-401
validate_all_corrections(ec, el, data) ==
    LET total_errors == Len(ec) + Len(el)
        Done(item) == HasExplanation(item)
        NotDone(item) == ~HasExplanation(item)
        completed_corrections == Len(SelectSeq(data, Done))
        lacking == SelectSeq(data, NotDone)
        missing_explanations ==
            [i \in 1..Len(lacking) |-> MissingLabel(lacking[i].key, lacking[i])]
    IN [is_valid |-> completed_corrections = total_errors,
        missing_list |-> missing_explanations,
        completed |-> completed_corrections,
        total |-> total_errors]

\* app.py:418-459: the row of one pending correction.  farmer_name stands for the
\* context columns copied unchanged (supervisor, woreda, kebele, farmer_name,
\* phone_no, subdate); the two clock columns are left out.
correction_record(correction_data, sel) ==
    LET error_data == correction_data.error_data
    IN [error_type |-> IF correction_data.error_type = "constraint"
                       THEN "constraint" ELSE "logic",
        username |-> error_data.username,
        farmer_name |-> error_data.farmer_name,
        unique_id |-> error_data.unique_id,
        variable |-> error_data.variable,
        original_value |-> error_data.value,
        reference_value |-> IF correction_data.error_type = "constraint"
                            THEN error_data.constraint
                            ELSE <<Num(error_data.Troster)>>,
        correct_value |-> correction_data.correct_value,
        explanation |-> correction_data.explanation,
        corrected_by |-> sel]

\* app.py:415-461: one row per item of all_corrections_data, in dict order
BuildCorrections(data, sel) ==
    [i \in 1..Len(data) |-> correction_record(data[i], sel)]

\* Mutant of MarkCorrected: the set is replaced by the keys of this save.
MarkCorrectedReplaces(corrected, data) == DictKeys(data)

\* app.py:463: the keys marked corrected by the loop
MarkCorrected(corrected, data) == corrected \cup DictKeys(data)

(***************************************************************************)
(* The ledger (app.py:68-109).                                             *)
(***************************************************************************)
NoLedger == [exists |-> FALSE, sha |-> 0, content |-> <<>>]

\* A cell of the CSV text: characters, or the decimal digits of an integer.
TextCell(chars) == [kind |-> "text", chars |-> chars, n |-> 0]
DigitsCell(n) == [kind |-> "digits", chars |-> <<>>, n |-> n]

\* app.py:82  corrections_df.to_csv(index=False): one line per row.  The
\* explanation is written as typed and correct_value in decimal; the columns copied
\* from the source tables are written as the text they were read from.
to_csv(rows) ==
    [i \in 1..Len(rows) |->
        [rows[i] EXCEPT !.explanation = TextCell(rows[i].explanation),
                        !.correct_value = DigitsCell(rows[i].correct_value)]]

\* The texts pd.read_csv reads as a missing value, besides the empty cell.
NaStrings == {<<"N", "A">>}

\* A missing value (NaN) in a column of texts.
NaN == <<"NaN">>

\* pd.read_csv of one cell
parse_cell(cell) ==
    IF cell.kind = "digits" THEN cell.n
    ELSE IF cell.chars = <<>> \/ cell.chars \in NaStrings THEN NaN
    ELSE cell.chars

\* app.py:162  pd.read_csv(io.StringIO(corrections_content))
read_csv(lines) ==
    [i \in 1..Len(lines) |->
        [lines[i] EXCEPT !.explanation = parse_cell(lines[i].explanation),
                         !.correct_value = parse_cell(lines[i].correct_value)]]

\* How the requests of one save end: all answered as the repository stands
\* ("ok"), to_csv raises, a request raises, the get is answered with an error
\* status, or the put is.
Backends == {"ok", "serialization_error", "network_error", "get_bad_status", "bad_status"}

\* app.py:89-92: the get; 0 stands for sha = None
GetSha(led, backend) == IF led.exists /\ backend # "get_bad_status" THEN led.sha ELSE 0

\* app.py:104: what the put is answered.  The repository's contents API creates the
\* file when there is none, and replaces it when the sha given is the file's.
PutStatus(led, sha, backend) ==
    IF backend = "network_error" THEN "raise"
    ELSE IF backend = "bad_status" THEN "500"
    ELSE IF ~led.exists THEN "201"
    ELSE IF sha = 0 THEN "422"
    ELSE IF sha = led.sha THEN "200"
    ELSE "409"

\* Mutant of PutAccepted: a conflict answer counts as success too.
PutAcceptedOnConflict(status) == status \in {"200", "201", "409"}

\* Mutant of PutAccepted: any answered put counts as success.
PutAcceptedAnyStatus(status) == status # "raise"

\* app.py:105  response.status_code in [200, 201]
PutAccepted(status) == status \in {"200", "201"}

\* app.py:68-109: the result, the ledger afterwards, and what the put was answered
\* ("none": no put was made)
save_corrections_to_github(corrections_df, led, backend, token) ==
    IF ~token THEN [ok |-> FALSE, ledger |-> led, put |-> "none"]
    ELSE IF backend = "serialization_error"
    THEN [ok |-> FALSE, ledger |-> led, put |-> "none"]
    ELSE LET csv_data == to_csv(corrections_df)
             sha == GetSha(led, backend)
             status == PutStatus(led, sha, backend)
         IN IF status = "raise"
            THEN [ok |-> FALSE, ledger |-> led, put |-> status]
            ELSE [ok |-> PutAccepted(status),
                  ledger |-> IF status \in {"200", "201"}
                             THEN [exists |-> TRUE, sha |-> led.sha + 1,
                                   content |-> csv_data]
                             ELSE led,
                  put |-> status]

\* The browser sessions that can be inside save_corrections_to_github.
Sessions == {"s1", "s2"}

\* A session that is not inside save_corrections_to_github.
Idle == [pc |-> "idle", sha |-> 0, rows |-> <<>>, put |-> "none", result |-> "none",
         overtaken |-> FALSE]

NoWriters == [s \in Sessions |-> Idle]

\* No constraint error is on its way to a number input.
NoInput == [at |-> "none", constraint |-> <<>>, value |-> IntVal(0),
            min_val |-> 0, max_val |-> 0, current_value |-> 0]

\* app.py:154-162, 188-192: what the admin view holds after its get
NotRead == [read |-> FALSE, rows |-> <<>>]

AdminRead(led, answered) ==
    IF answered /\ led.exists THEN [read |-> TRUE, rows |-> read_csv(led.content)]
    ELSE NotRead

\* Mutant of AfterWrite: a successful write does not clear the pending corrections.
AfterWriteKeepsPending(ok, data) == data

\* app.py:469-476: the pending corrections after the write
AfterWrite(ok, data) == IF ok THEN <<>> ELSE data

\* Mutant of Proceeds: the refusal branch lacks its st.stop() and falls through.
ProceedsWithoutStop(is_valid) == TRUE

\* app.py:407-412: the handler goes on only when validation passed (st.stop())
Proceeds(is_valid) == is_valid

(***************************************************************************)
(* The start of every script run (app.py:22-65, 112-145).                  *)
(***************************************************************************)
\* What https://api.github.com/user answers; "raise" is a request that raises.
UserResponses == {"200", "401", "403", "raise"}

\* What a contents request for a table answers; "garbled" is a 200 whose content
\* does not decode or parse.
TableResponses == {"200", "404", "raise", "garbled"}

\* Mutant of check_token_expiry: the 401 test is missing.
check_token_expiry_no_401(token, user) == token /\ user # "raise"

\* app.py:112-127
check_token_expiry(token, user) ==
    IF ~token THEN FALSE
    ELSE IF user = "raise" THEN FALSE
    ELSE IF user = "401" THEN FALSE
    ELSE TRUE

NoTables == [constraints |-> FALSE, logic |-> FALSE]
BothTables == [constraints |-> TRUE, logic |-> TRUE]

\* app.py:23-65: the pair returned, as which of the two is a table
load_data_from_github(token, c, l) ==
    IF ~token THEN NoTables
    ELSE IF c # "200" THEN NoTables
    ELSE IF l # "200" THEN NoTables
    ELSE BothTables

\* The requests a run makes, and what each was answered ("none": not made).
Answers(user, c, l) == [user |-> user, constraints |-> c, logic |-> l]

\* The start every run of the correction session has behind it: the token is set,
\* the check passed and both tables are in the cache.
StartPassed ==
    /\ github_token = TRUE
    /\ data_cache = "tables"
    /\ reached = "view"
    /\ tables = BothTables
    /\ responses = Answers("200", "none", "none")

(***************************************************************************)
(* Script runs.                                                            *)
(***************************************************************************)
\* app.py:196-376: the enumerator view is drawn: widgets are instantiated and
\* every drawn error is stored in all_corrections_data
Draw(w, sel, corrected, data) ==
    LET order == RenderOrder(sel, corrected)
        drawn == DrawWidgets(order, w)
    IN [widgets |-> drawn, data |-> StoreAll(data, drawn, order)]

NoWidgets == DrawWidgets(<<>>, <<>>)

Init ==
    /\ corrected_errors = {}
    /\ is_admin = FALSE
    /\ selected_enumerator = all_enumerators[1]
    /\ LET first == Draw(NoWidgets, all_enumerators[1], {}, <<>>)
       IN /\ widgets = first.widgets
          /\ all_corrections_data = first.data
    /\ ledger \in {NoLedger, [exists |-> TRUE, sha |-> 1, content |-> to_csv(PriorRows)]}
    /\ confirmed = IF ledger.exists THEN PriorRows ELSE <<>>
    /\ outcome = "run"
    /\ corrections = <<>>
    /\ all_corrections = NotRead
    /\ constraint_input = NoInput
    /\ writers = NoWriters
    /\ StartPassed

\* A run in the enumerator view that does not reach the save handler.
View(w, sel) ==
    LET d == Draw(w, sel, corrected_errors, all_corrections_data)
    IN /\ widgets' = d.widgets
       /\ all_corrections_data' = d.data
       /\ selected_enumerator' = sel
       /\ outcome' = "run"
       /\ corrections' = <<>>
       /\ UNCHANGED <<corrected_errors, is_admin, ledger, confirmed, all_corrections>>
       /\ UNCHANGED <<start_vars, constraint_input, writers>>

\* The user types in a text area (app.py:317, 361).
EditExplanation ==
    /\ ~is_admin
    /\ \E k \in DOMAIN widgets : \E s \in Explanations :
          /\ s # widgets[k].explanation
          /\ View([widgets EXCEPT ![k].explanation = s], selected_enumerator)

\* The values the user enters in the number input of key k: its lowest allowed
\* value, or the value it started with.
ValueChoices(k) ==
    LET item == DictGet(all_corrections_data, k)
        n == NumberInput(item.error_type, item.error_data)
    IN {v \in {n.min_value, n.value} : n.min_value <= v /\ v <= n.max_value}

\* The user changes a number input (app.py:308, 352).
EditValue ==
    /\ ~is_admin
    /\ \E k \in DOMAIN widgets : \E v \in ValueChoices(k) :
          /\ v # widgets[k].correct_value
          /\ View([widgets EXCEPT ![k].correct_value = v], selected_enumerator)

\* The user picks another username (app.py:205).
SelectEnumerator ==
    /\ ~is_admin
    /\ \E i \in 1..Len(all_enumerators) :
          /\ all_enumerators[i] # selected_enumerator
          /\ View(widgets, all_enumerators[i])

\* The script runs again with no widget changed (the "Rerun" command, or a click on
\* a widget that the last run left on screen and this run no longer draws).
Rerun ==
    /\ ~is_admin
    /\ View(widgets, selected_enumerator)

\* The admin toggle (app.py:148).  The admin view reads the ledger and draws none
\* of the enumerator view's widgets; leaving it draws them anew, the select box at
\* index 0.
ToggleAdmin ==
    /\ is_admin' = ~is_admin
    /\ IF is_admin THEN all_corrections' = NotRead
       ELSE \E answered \in BOOLEAN : all_corrections' = AdminRead(ledger, answered)
    /\ selected_enumerator' = all_enumerators[1]
    /\ IF is_admin
       THEN LET d == Draw(NoWidgets, all_enumerators[1], corrected_errors,
                          all_corrections_data)
            IN widgets' = d.widgets /\ all_corrections_data' = d.data
       ELSE widgets' = NoWidgets /\ UNCHANGED all_corrections_data
    /\ outcome' = "run"
    /\ corrections' = <<>>
    /\ UNCHANGED <<corrected_errors, ledger, confirmed>>
    /\ UNCHANGED <<start_vars, constraint_input, writers>>

\* app.py:230, 403: the save button is drawn only when some farmer has errors
SaveEnabled ==
    /\ ~is_admin
    /\ RenderOrder(selected_enumerator, corrected_errors) # <<>>

\* The user clicks "Save All Corrections" (app.py:403-478); the run draws the
\* view, then the handler runs.
SaveAll ==
    /\ SaveEnabled
    /\ UNCHANGED <<start_vars, all_corrections, constraint_input, writers>>
    /\ LET d == Draw(widgets, selected_enumerator, corrected_errors, all_corrections_data)
           ec == enumerator_constraints(selected_enumerator, corrected_errors)
           el == enumerator_logic(selected_enumerator, corrected_errors)
           v == validate_all_corrections(ec, el, d.data)
           rows == BuildCorrections(d.data, selected_enumerator)
           marked == MarkCorrected(corrected_errors, d.data)
       IN IF ~Proceeds(v.is_valid)
          THEN /\ widgets' = d.widgets
               /\ all_corrections_data' = d.data
               /\ outcome' = "refused"
               /\ corrections' = <<>>
               /\ UNCHANGED <<corrected_errors, selected_enumerator, is_admin,
                              ledger, confirmed>>
          ELSE IF rows = <<>>
          THEN /\ widgets' = d.widgets
               /\ all_corrections_data' = d.data
               /\ corrected_errors' = marked
               /\ outcome' = "nothing"
               /\ corrections' = rows
               /\ UNCHANGED <<selected_enumerator, is_admin, ledger, confirmed>>
          ELSE \E backend \in Backends :
               LET w == save_corrections_to_github(rows, ledger, backend, github_token)
                   kept == AfterWrite(w.ok, d.data)
                   \* app.py:474: st.rerun() on success
                   again == Draw(d.widgets, selected_enumerator, marked, kept)
               IN /\ corrected_errors' = marked
                  /\ ledger' = w.ledger
                  /\ corrections' = rows
                  /\ confirmed' = IF w.ok THEN confirmed \o rows ELSE confirmed
                  /\ outcome' = IF w.ok THEN "saved" ELSE "write_failed"
                  /\ widgets' = IF w.ok THEN again.widgets ELSE d.widgets
                  /\ all_corrections_data' = IF w.ok THEN again.data ELSE kept
                  /\ UNCHANGED <<selected_enumerator, is_admin>>

Next ==
    \/ EditExplanation
    \/ EditValue
    \/ SelectEnumerator
    \/ Rerun
    \/ ToggleAdmin
    \/ SaveAll

Spec == Init /\ [][Next]_vars

(***************************************************************************)
(* The start of the script alone: runs of app.py:135-148 under every       *)
(* answer of the repository, with the correction session left as created.  *)
(***************************************************************************)
StartInit ==
    /\ corrected_errors = {}
    /\ all_corrections_data = <<>>
    /\ widgets = NoWidgets
    /\ selected_enumerator = all_enumerators[1]
    /\ is_admin = FALSE
    /\ ledger = NoLedger
    /\ outcome = "run"
    /\ corrections = <<>>
    /\ confirmed = <<>>
    /\ all_corrections = NotRead
    /\ constraint_input = NoInput
    /\ writers = NoWriters
    /\ github_token \in BOOLEAN
    /\ data_cache = "empty"
    /\ reached = "start"
    /\ tables = NoTables
    /\ responses = Answers("none", "none", "none")

\* The session state a run of the start leaves alone.
start_frame == <<corrected_errors, all_corrections_data, widgets, selected_enumerator,
                 ledger, outcome, corrections, confirmed, all_corrections,
                 constraint_input, writers>>

\* app.py:137-138: the run stops at the token check.  The admin toggle is not
\* drawn, so its state is dropped.
StopAtToken ==
    /\ \E user \in UserResponses :
          /\ ~check_token_expiry(github_token, user)
          /\ responses' = Answers(IF github_token THEN user ELSE "none", "none", "none")
    /\ reached' = "stopped_token"
    /\ tables' = NoTables
    /\ is_admin' = FALSE
    /\ UNCHANGED <<github_token, data_cache>>
    /\ UNCHANGED start_frame

\* app.py:140-148: the check passed; the tables come from the cache or are loaded,
\* and the run stops unless both are there.  A run that gets to the admin toggle
\* finds it as the user set it.
LoadTables ==
    /\ \E user \in UserResponses, c \in TableResponses, l \in TableResponses :
          /\ check_token_expiry(github_token, user)
          /\ IF data_cache = "empty"
             THEN LET got == load_data_from_github(github_token, c, l)
                  IN /\ tables' = got
                     /\ data_cache' = IF got = BothTables THEN "tables" ELSE "failed"
                     /\ responses' = Answers(user, c, IF c = "200" THEN l ELSE "none")
             ELSE /\ tables' = IF data_cache = "tables" THEN BothTables ELSE NoTables
                  /\ responses' = Answers(user, "none", "none")
                  /\ UNCHANGED data_cache
    /\ reached' = IF tables'.constraints /\ tables'.logic THEN "view" ELSE "stopped_load"
    /\ \E toggle \in BOOLEAN : is_admin' = (reached' = "view" /\ toggle)
    /\ UNCHANGED github_token
    /\ UNCHANGED start_frame

\* app.py:22: the cache entry is an hour old and is dropped
CacheExpires ==
    /\ data_cache # "empty"
    /\ data_cache' = "empty"
    /\ UNCHANGED <<github_token, reached, tables, responses, is_admin>>
    /\ UNCHANGED start_frame

\* The operator sets or removes the token in the app's secrets (app.py:27).
SecretsChange ==
    /\ github_token' = ~github_token
    /\ UNCHANGED <<data_cache, reached, tables, responses, is_admin>>
    /\ UNCHANGED start_frame

StartNext ==
    \/ StopAtToken
    \/ LoadTables
    \/ CacheExpires
    \/ SecretsChange

StartSpec == StartInit /\ [][StartNext]_vars

(***************************************************************************)
(* The append operation and the admin read on their own: rows of pending   *)
(* corrections are put to the ledger under every way the requests can end, *)
(* with and without a token, and read back as the admin view reads them.   *)
(***************************************************************************)
MaxAppends == 2

\* Explanations that pass app.py:390 (non-empty after strip).
CommitTexts == {<<"x">>, <<" ", "x">>, <<"N", "A">>}

\* The pending items the loop of app.py:244-376 can hold for one enumerator: the
\* errors not yet corrected, in the order drawn, each with an explanation.
PendingData(sel) ==
    LET order == RenderOrder(sel, {})
        ItemOf(e, t) ==
            [key |-> ErrorKey(e.error_type, e.error_data), error_type |-> e.error_type,
             error_data |-> e.error_data,
             correct_value |-> NumberInput(e.error_type, e.error_data).value,
             explanation |-> t]
        RECURSIVE D(_)
        D(i) == IF i > Len(order) THEN {<<>>}
                ELSE LET rest == D(i + 1)
                     IN rest \cup {<<ItemOf(order[i], t)>> \o d :
                                      t \in CommitTexts, d \in rest}
    IN D(1) \ {<<>>}

\* The lists of rows a save run can hand to save_corrections_to_github.
Batches == {BuildCorrections(d, "ayele") : d \in PendingData("ayele")}

NoRequest == [backend |-> "none", put |-> "none"]

AppendInit ==
    /\ corrected_errors = {}
    /\ all_corrections_data = <<>>
    /\ widgets = NoWidgets
    /\ selected_enumerator = "ayele"
    /\ is_admin = FALSE
    /\ ledger \in {NoLedger, [exists |-> TRUE, sha |-> 1, content |-> to_csv(PriorRows)]}
    /\ confirmed = IF ledger.exists THEN PriorRows ELSE <<>>
    /\ outcome = "run"
    /\ corrections = <<>>
    /\ all_corrections = NotRead
    /\ constraint_input = NoInput
    /\ writers = NoWriters
    /\ github_token \in BOOLEAN
    /\ data_cache = "tables"
    /\ reached = "view"
    /\ tables = BothTables
    /\ responses = NoRequest

append_frame == <<corrected_errors, all_corrections_data, widgets, selected_enumerator,
                  github_token, data_cache, reached, tables, constraint_input,
                  writers>>

\* app.py:469-478: the call of save_corrections_to_github and what the run shows
AppendRows ==
    /\ ledger.sha < MaxAppends
    /\ \E rows \in Batches, backend \in Backends :
          LET w == save_corrections_to_github(rows, ledger, backend, github_token)
          IN /\ ledger' = w.ledger
             /\ corrections' = rows
             /\ outcome' = IF w.ok THEN "saved" ELSE "write_failed"
             /\ confirmed' = IF w.ok THEN confirmed \o rows ELSE confirmed
             /\ responses' = [backend |-> backend, put |-> w.put]
    /\ is_admin' = FALSE
    /\ all_corrections' = NotRead
    /\ UNCHANGED append_frame

\* app.py:151-192: a run in admin mode gets the ledger and parses it
ReadLedger ==
    /\ is_admin' = TRUE
    /\ \E answered \in BOOLEAN : all_corrections' = AdminRead(ledger, answered)
    /\ UNCHANGED <<ledger, corrections, outcome, confirmed, responses>>
    /\ UNCHANGED append_frame

AppendNext == AppendRows \/ ReadLedger

AppendSpec == AppendInit /\ [][AppendNext]_vars

(***************************************************************************)
(* The bounds of a constraint error's number input on their own: every      *)
(* rule text and reported value up to a length, taken through the bound     *)
(* inference and the clamp of app.py:282-305.                               *)
(***************************************************************************)
MaxTokens == 4

\* The words and integer literals a rule text is made of.
Tokens == {Word("max"), Word("MAX"), Word("min"), Word("of"),
           Num(0), Num(3), Num(200000)}

RuleTexts == UNION {[1..n -> Tokens] : n \in 0..MaxTokens}

\* error['value']: integers, and a value int() raises on
ReportedValues == {IntVal(n) : n \in {-1, 0, 5, 300000}} \cup {[int |-> FALSE, n |-> 0]}

BoundsInit ==
    /\ corrected_errors = {}
    /\ all_corrections_data = <<>>
    /\ widgets = NoWidgets
    /\ selected_enumerator = all_enumerators[1]
    /\ is_admin = FALSE
    /\ ledger = NoLedger
    /\ outcome = "run"
    /\ corrections = <<>>
    /\ confirmed = <<>>
    /\ all_corrections = NotRead
    /\ StartPassed
    /\ writers = NoWriters
    /\ \E text \in RuleTexts, value \in ReportedValues :
          constraint_input = [at |-> "row", constraint |-> text, value |-> value,
                              min_val |-> 0, max_val |-> 0, current_value |-> 0]

\* app.py:282-295
InferBounds ==
    /\ constraint_input.at = "row"
    /\ LET b == infer_bounds(constraint_input.constraint)
       IN constraint_input' = [constraint_input EXCEPT !.at = "bounds",
                                                       !.min_val = b.min_val,
                                                       !.max_val = b.max_val]
    /\ UNCHANGED <<session_vars, start_vars, all_corrections, writers>>

\* app.py:297-305
SafeCurrentValue ==
    /\ constraint_input.at = "bounds"
    /\ constraint_input' =
          [constraint_input EXCEPT !.at = "shown",
                                   !.current_value = current_value(constraint_input.value,
                                                                   constraint_input.min_val,
                                                                   constraint_input.max_val)]
    /\ UNCHANGED <<session_vars, start_vars, all_corrections, writers>>

BoundsNext == InferBounds \/ SafeCurrentValue

BoundsSpec == BoundsInit /\ [][BoundsNext]_vars

(***************************************************************************)
(* Two sessions saving to an existing ledger at the same time: the get and *)
(* the put of save_corrections_to_github are separate requests, and the    *)
(* requests of the two sessions interleave.                                *)
(***************************************************************************)
\* The lists of rows a session hands to save_corrections_to_github.
WriterBatches == {b \in Batches : \A i \in 1..Len(b) : b[i].explanation = <<"x">>}

ConcurrentInit ==
    /\ corrected_errors = {}
    /\ all_corrections_data = <<>>
    /\ widgets = NoWidgets
    /\ selected_enumerator = all_enumerators[1]
    /\ is_admin = FALSE
    /\ ledger = [exists |-> TRUE, sha |-> 1, content |-> to_csv(PriorRows)]
    /\ confirmed = PriorRows
    /\ outcome = "run"
    /\ corrections = <<>>
    /\ all_corrections = NotRead
    /\ constraint_input = NoInput
    /\ StartPassed
    /\ writers = NoWriters

concurrent_frame == <<corrected_errors, all_corrections_data, widgets, selected_enumerator,
                      is_admin, outcome, corrections, confirmed, all_corrections,
                      constraint_input, start_vars>>

\* app.py:82-92: session s serializes its rows and gets the sha of the file; a get
\* that raises ends the save with False
WriterGet(s) ==
    /\ writers[s].pc = "idle"
    /\ ledger.sha < MaxAppends
    /\ \E rows \in WriterBatches, backend \in {"ok", "get_bad_status", "network_error"} :
          writers' = [writers EXCEPT ![s] =
                         IF backend = "network_error"
                         THEN [Idle EXCEPT !.rows = rows, !.result = "false"]
                         ELSE [Idle EXCEPT !.pc = "got", !.rows = rows,
                                           !.sha = GetSha(ledger, backend)]]
    /\ UNCHANGED <<ledger, concurrent_frame>>

\* app.py:94-105: session s puts its rows with the sha its get returned
WriterPut(s) ==
    /\ writers[s].pc = "got"
    /\ \E backend \in {"ok", "bad_status", "network_error"} :
          LET status == PutStatus(ledger, writers[s].sha, backend)
              replaced == status \in {"200", "201"}
              ok == status # "raise" /\ PutAccepted(status)
          IN /\ ledger' = IF replaced
                          THEN [exists |-> TRUE, sha |-> ledger.sha + 1,
                                content |-> to_csv(writers[s].rows)]
                          ELSE ledger
             /\ writers' = [t \in Sessions |->
                              IF t = s
                              THEN [writers[s] EXCEPT !.pc = "idle", !.put = status,
                                       !.result = IF ok THEN "true" ELSE "false"]
                              ELSE IF replaced /\ writers[t].pc = "got"
                                   THEN [writers[t] EXCEPT !.overtaken = TRUE]
                                   ELSE writers[t]]
    /\ UNCHANGED concurrent_frame

ConcurrentNext == \E s \in Sessions : WriterGet(s) \/ WriterPut(s)

ConcurrentSpec == ConcurrentInit /\ [][ConcurrentNext]_vars

(***************************************************************************)
(* Properties.                                                             *)
(***************************************************************************)
\* The error key of a correction row.
RowKey(r) == <<r.error_type, r.unique_id, r.variable>>

RowKeys(rows) == {RowKey(rows[i]) : i \in 1..Len(rows)}

\* The validation result the save handler would compute in the current state.
Validation ==
    validate_all_corrections(enumerator_constraints(selected_enumerator, corrected_errors),
                             enumerator_logic(selected_enumerator, corrected_errors),
                             all_corrections_data)

\* Outstanding error key k has a pending explanation that is non-empty once trimmed.
Explained(k) ==
    /\ k \in DictKeys(all_corrections_data)
    /\ strip(DictGet(all_corrections_data, k).explanation) # <<>>

AllOutstandingExplained ==
    \A k \in OutstandingKeys(selected_enumerator, corrected_errors) : Explained(k)

\* The step is a run of the save handler.
SaveStep == outcome' \in {"refused", "nothing", "saved", "write_failed"}

\* C1: a save emits correction rows, marks keys corrected or writes to the ledger
\* only if every outstanding error key of the selected enumerator has a pending
\* explanation that is non-empty after trimming; otherwise nothing is committed.
C1_AllOrNothing ==
    [][(SaveStep /\ (corrections' # <<>> \/ corrected_errors' # corrected_errors
                     \/ ledger' # ledger))
       => AllOutstandingExplained]_vars

\* C2: after any sequence of successful commits the ledger holds the rows it held
\* at session start followed by every row confirmed written since, unchanged.
C2_LedgerIsAppendOnly == ledger.content = to_csv(confirmed)

\* C3: an error key is in corrected_errors only if a ledger write containing its
\* correction row was confirmed.
C3_WriteThenMark == \A k \in corrected_errors : k \in RowKeys(confirmed)

\* C4: after a failed ledger write the pending edits are still in session memory
\* and the save action for the same outstanding errors is still enabled.
C4_FailedWriteRetryable ==
    outcome = "write_failed" =>
        /\ RowKeys(corrections) \subseteq DictKeys(all_corrections_data)
        /\ SaveEnabled
        /\ RowKeys(corrections) \subseteq OutstandingKeys(selected_enumerator, corrected_errors)

\* C5: whenever the save action can be evaluated, validation is ok exactly when its
\* missing list is empty, and it is not ok, with a non-empty missing list, when an
\* outstanding error of the selected enumerator lacks a trimmed non-empty explanation.
C5_OkIffNothingMissing ==
    SaveEnabled =>
        /\ Validation.is_valid <=> (Validation.missing_list = <<>>)
        /\ Validation.is_valid <=> (Validation.completed = Validation.total)
        /\ ~AllOutstandingExplained =>
              (~Validation.is_valid /\ Validation.missing_list # <<>>)

\* C6: a commit that passes validation builds exactly one correction row per
\* outstanding error key of the selected enumerator, and none for any other key.
C6_OneRowPerOutstandingKey ==
    [][(outcome' \in {"saved", "write_failed"})
       => /\ RowKeys(corrections') = OutstandingKeys(selected_enumerator, corrected_errors)
          /\ Len(corrections') = Cardinality(RowKeys(corrections'))]_vars

\* C7: a save whose validation fails changes nothing: corrected_errors,
\* all_corrections_data, the ledger and the user's widget input stay as they were.
C7_RefusedSaveChangesNothing ==
    [][(SaveStep /\ ~Validation.is_valid)
       => UNCHANGED <<corrected_errors, all_corrections_data, ledger, widgets>>]_vars

\* C7 witness: a save was refused while the user had typed an explanation.
C7_Witness ==
    /\ outcome = "refused"
    /\ \E i \in 1..Len(all_corrections_data) : all_corrections_data[i].explanation # <<>>

\* C8: after a successful commit every committed key is in corrected_errors, has no
\* pending correction left, and is not among the outstanding errors of the next run.
C8_CommittedKeysResolved ==
    outcome = "saved" =>
        \A k \in RowKeys(corrections) :
            /\ k \in corrected_errors
            /\ k \notin DictKeys(all_corrections_data)
            /\ k \notin OutstandingKeys(selected_enumerator, corrected_errors)

\* C8 witness: a commit of two corrections was confirmed written.
C8_Witness == outcome = "saved" /\ Len(corrections) >= 2

\* C9: no pending correction exists for a key in corrected_errors.
C9_PendingDisjointFromResolved == DictKeys(all_corrections_data) \cap corrected_errors = {}

\* C10: the explanation of every emitted correction row is the last-edited
\* explanation text with leading and trailing whitespace trimmed.
C10_ExplanationTrimmed ==
    [][(outcome' \in {"saved", "write_failed"})
       => \A i \in 1..Len(corrections') :
             /\ RowKey(corrections'[i]) \in DictKeys(all_corrections_data)
             /\ corrections'[i].explanation =
                   strip(DictGet(all_corrections_data, RowKey(corrections'[i])).explanation)]_vars

C12_ResolvedMonotonic == [][corrected_errors \subseteq corrected_errors']_vars

\* C12 witness: after a later save, keys marked by an earlier save are still marked.
C12_Witness ==
    /\ outcome \in {"saved", "write_failed"}
    /\ corrected_errors \ RowKeys(corrections) # {}

\* C14: a script run gets to the admin toggle and the views behind it only if the
\* token is set, the token check was not answered 401 and both tables are there; the
\* tables enter the cache only when both requests were answered 200, and a run
\* never has one table without the other.
C14_ViewOnlyAfterCheckAndLoad ==
    [][(StopAtToken \/ LoadTables)
       => /\ reached' = "view" =>
                /\ github_token
                /\ responses'.user \notin {"401", "raise", "none"}
                /\ tables' = BothTables
                /\ data_cache' = "tables"
          /\ (~github_token \/ responses'.user = "401") => reached' \notin {"view"}
          /\ tables'.constraints = tables'.logic
          /\ (data_cache' = "tables" /\ data_cache # "tables")
                => (responses'.constraints = "200" /\ responses'.logic = "200")
          /\ (responses'.constraints \notin {"200", "none"}
              \/ responses'.logic \notin {"200", "none"})
                => (tables' = NoTables /\ reached' = "stopped_load")
          /\ reached' # "view" => ~is_admin']_vars

\* C14 witness: a run loaded both tables and reached the admin view.
C14_Witness ==
    /\ reached = "view"
    /\ is_admin
    /\ responses.constraints = "200"
    /\ responses.logic = "200"


\* C13: the append returns true only when the put was answered 200 or 201; without
\* a token, when a request or the serialization raises, and when the put is
\* answered any other status, it returns false, and nothing else comes out of it.
C13_TrueOnlyOnConfirmedPut ==
    outcome \in {"saved", "write_failed"}
    => /\ outcome = "saved" => (github_token /\ responses.put \in {"200", "201"})
       /\ (\/ ~github_token
           \/ responses.backend \in {"serialization_error", "network_error", "bad_status"}
           \/ responses.put \notin {"200", "201"})
          => outcome = "write_failed"

C13_Witness == outcome = "saved" /\ responses.put = "201" /\ github_token

\* C15: when rows were put to a ledger that did not exist and the admin view reads
\* the ledger, it holds exactly those rows, field by field, in the same order.
C15_RoundTrip ==
    (outcome = "saved" /\ responses.put = "201" /\ all_corrections.read)
    => all_corrections.rows = corrections


\* C17: in validation, total is the number of outstanding error keys of the
\* selected enumerator, completed is the number of those keys whose pending
\* explanation is non-empty once trimmed, and 0 <= completed <= total.
C17_CompletedWithinTotal ==
    SaveEnabled =>
        LET outstanding == OutstandingKeys(selected_enumerator, corrected_errors)
        IN /\ Validation.total = Cardinality(outstanding)
           /\ Validation.completed = Cardinality({k \in outstanding : Explained(k)})
           /\ 0 <= Validation.completed
           /\ Validation.completed <= Validation.total


\* The integer literals of the rule text of the constraint error, in text order.
Literals ==
    LET text == constraint_input.constraint
        at == {i \in 1..Len(text) : text[i].kind = "num"}
    IN [i \in at |-> text[i].num]

HasKeyword(w) ==
    \E i \in 1..Len(constraint_input.constraint) :
        /\ constraint_input.constraint[i].kind = "word"
        /\ constraint_input.constraint[i].word \in {w, IF w = "max" THEN "MAX" ELSE "MIN"}

\* C18: the value displayed for a constraint error lies within the inferred
\* bounds, min <= displayed value <= max, and is min when the reported value is
\* not an integer.
C18_DisplayedWithinBounds ==
    constraint_input.at = "shown"
    => /\ constraint_input.min_val <= constraint_input.current_value
       /\ constraint_input.current_value <= constraint_input.max_val
       /\ ~constraint_input.value.int
             => constraint_input.current_value = constraint_input.min_val

\* C19: a rule text with both keywords "min" and "max" and at least one integer
\* literal gives min = max = the last integer literal of the text.
C19_BothKeywordsLastLiteral ==
    (/\ constraint_input.at \in {"bounds", "shown"}
     /\ HasKeyword("min") /\ HasKeyword("max")
     /\ DOMAIN Literals # {})
    => LET last == CHOOSE i \in DOMAIN Literals : \A j \in DOMAIN Literals : j <= i
       IN /\ constraint_input.min_val = Literals[last]
          /\ constraint_input.max_val = Literals[last]

C19_Witness ==
    /\ constraint_input.at = "bounds"
    /\ HasKeyword("min") /\ HasKeyword("max")
    /\ Cardinality({Literals[i] : i \in DOMAIN Literals}) > 1

\* C20: a rule text without digits gives the bounds (0, 100000), with or without
\* the keywords, and the inference ends.
C20_NoDigitsDefault ==
    /\ [](constraint_input.at \in {"bounds", "shown"} /\ DOMAIN Literals = {}
          => constraint_input.min_val = 0 /\ constraint_input.max_val = 100000)
    /\ [][constraint_input.at = "row" => constraint_input'.at = "bounds"]_vars

C20_Witness ==
    /\ constraint_input.at = "bounds"
    /\ DOMAIN Literals = {}
    /\ HasKeyword("min") /\ HasKeyword("max")


\* C22: every correction row built by a save comes from a source row of the
\* enumerator who saves: its username equals its corrected_by.
C22_RowsOfCommittingEnumerator ==
    outcome \in {"saved", "write_failed"}
    => \A i \in 1..Len(corrections) :
          corrections[i].username = corrections[i].corrected_by

\* C23: whenever the save button is drawn in the enumerator view, the pending
\* corrections hold an item for every outstanding error key of the selected
\* enumerator, and a save that is carried out builds a row for each of them.
C23_PendingCoversOutstanding ==
    /\ [](SaveEnabled
          => OutstandingKeys(selected_enumerator, corrected_errors)
                \subseteq DictKeys(all_corrections_data))
    /\ [][(outcome' \in {"saved", "write_failed"})
          => OutstandingKeys(selected_enumerator', corrected_errors)
                \subseteq RowKeys(corrections')]_vars

C23_Witness ==
    /\ outcome = "saved"
    /\ selected_enumerator = "bekele"
    /\ \E i \in 1..Len(corrections) : corrections[i].username = "bekele"


\* C21: with two sessions appending to an existing ledger at the same time, a put
\* is confirmed only if no other session's put replaced the file between this
\* session's get and its put; a session that was overtaken gets False and leaves
\* the ledger as the other session wrote it.
C21_StaleWriterRejected ==
    [][\A s \in Sessions :
          (writers[s].pc = "got" /\ writers'[s].pc = "idle")
          => /\ writers'[s].result = "true"
                => (~writers[s].overtaken /\ writers[s].sha = ledger.sha
                    /\ ledger'.content = to_csv(writers[s].rows))
             /\ writers[s].overtaken
                => (writers'[s].result = "false" /\ ledger' = ledger)]_vars

C21_Witness ==
    \E s, t \in Sessions :
        /\ writers[s].result = "true"
        /\ writers[t].result = "false" /\ writers[t].overtaken /\ writers[t].put = "409"

=============================================================================
